---- MODULE Spec2Model ----
(***************************************************************************)
(* The chat relay of server.js: the connection handler registered with     *)
(* io.on("connection") and the five listeners it installs on every socket  *)
(* (user-join, chat-message, typing, stop-typing, disconnect), acting on   *)
(* the two process-wide collections connectedUsers and takenUsernames.     *)
(* Node runs every listener to completion on one event loop, so each       *)
(* listener is one atomic action.                                          *)
(***************************************************************************)
EXTENDS Integers, Sequences, FiniteSets, TLC

(* ------------------------------ bounds --------------------------------- *)
NumConns == 2      \* sockets that connect during one run of the server
MaxPad == 1        \* most white space before or after the text of a payload
MaxClock == 1      \* last millisecond of Date.now() that is observed
MaxEmitted == 5    \* events the socket of the page emits during one run

Conns == 1..NumConns

(* ------------------------------ strings -------------------------------- *)
\* A string is a sequence of characters; "A" is the only upper-case letter
\* and " " the only white space of the alphabet.
Words == {<<"a">>, <<"A">>, <<"b">>}

RECURSIVE Spaces(_)
Spaces(n) == IF n = 0 THEN <<>> ELSE <<" ">> \o Spaces(n - 1)

\* The strings clients send: nothing but white space, or a word with white
\* space before and after it.
Strings ==
  {Spaces(n) : n \in 0..MaxPad} \cup
  {Spaces(i) \o w \o Spaces(j) : i \in 0..MaxPad, j \in 0..MaxPad, w \in Words}

\* The value JavaScript calls undefined: what Map.get returns for a missing
\* key, and what a listener's parameter is when the client sent no string.
Undefined == <<"undefined">>

\* What a client can put in a user-join or chat-message packet.
Payloads == Strings \cup {Undefined}

\* Only strings have a trim method; calling it on anything else throws.
HasTrim(v) == v # Undefined

\* A test against the empty string only: undefined passes.
TruthyUnlessEmpty(v) == v # <<>>

\* A test against undefined only: the empty string passes.
TruthyUnlessUndefined(v) == v # <<"undefined">>

\* JavaScript truthiness of a string-or-undefined value.
Truthy(v) == v # Undefined /\ v # <<>>

RECURSIVE trimStart(_)
trimStart(s) ==
  IF s # <<>> /\ Head(s) = " " THEN trimStart(Tail(s)) ELSE s

RECURSIVE trimEnd(_)
trimEnd(s) ==
  IF s # <<>> /\ s[Len(s)] = " " THEN trimEnd(SubSeq(s, 1, Len(s) - 1)) ELSE s

\* trimStart written where trim was meant.
trimLeadingOnly(s) == trimStart(s)

trim(s) == trimEnd(trimStart(s))

lowerChar(ch) == IF ch = "A" THEN "a" ELSE ch

toLowerCase(s) == [i \in 1..Len(s) |-> lowerChar(s[i])]

(* --------------- what trimming and case folding should give ------------ *)
\* t is s without the white space around it.
IsTrimOf(t, s) ==
  /\ \E i \in 0..Len(s), j \in 0..Len(s) : s = Spaces(i) \o t \o Spaces(j)
  /\ t = <<>> \/ (t[1] # " " /\ t[Len(t)] # " ")

Stripped(s) ==
  CHOOSE t \in {SubSeq(s, i, j) : i \in 1..(Len(s) + 1), j \in 0..Len(s)} :
    IsTrimOf(t, s)

\* Two names that differ at most in the case of their letters.
SameName(x, y) ==
  /\ Len(x) = Len(y)
  /\ \A i \in 1..Len(x) : x[i] = y[i] \/ {x[i], y[i]} = {"a", "A"}

(* ------------------- Map (insertion ordered) and Set ------------------- *)
\* connectedUsers is a JavaScript Map: a sequence of entries in insertion
\* order, at most one per key.
MapHas(m, k) == \E i \in 1..Len(m) : m[i].id = k

MapGet(m, k) ==
  IF MapHas(m, k) THEN (CHOOSE e \in {m[i] : i \in 1..Len(m)} : e.id = k).name
  ELSE Undefined

\* Map.set keeps the position of a key that is already present.
MapSet(m, k, v) ==
  IF MapHas(m, k)
  THEN [i \in 1..Len(m) |-> IF m[i].id = k THEN [id |-> k, name |-> v] ELSE m[i]]
  ELSE Append(m, [id |-> k, name |-> v])

\* A delete that removes nothing.
MapDeleteTestKeepsAll(e, k) == TRUE

MapDeleteTest(e, k) == e.id # k

MapDelete(m, k) == SelectSeq(m, LAMBDA e : MapDeleteTest(e, k))

MapValues(m) == [i \in 1..Len(m) |-> m[i].name]

MapSize(m) == Len(m)

\* takenUsernames is a JavaScript Set.
\* A registration that forgets to record the name.
SetAddSkipped(set, v) == set

SetAdd(set, v) == set \cup {v}

\* A cleanup that forgets to release the name.
SetDeleteSkipped(set, v) == set

SetDelete(set, v) == set \ {v}

(* ------------------------------ state ---------------------------------- *)
VARIABLES
  serverUp,        \* the node process is running (no uncaught exception yet)
  sockets,         \* per socket id: "idle", "connected" or "closed"
  connectedUsers,  \* Map socket.id -> username
  takenUsernames,  \* Set of usernames
  now,             \* Date.now()
  out,             \* what the last step emitted, in order
  last,            \* the event the last step handled
  joinOrder,       \* history: ids in the registry, by the time they entered
  leftCount,       \* history: user-left events emitted for each socket id
  freeJoins,       \* history: join requests since the last disconnect that
                   \* found their name non-empty and not taken
  erred,           \* history: connected sockets that were sent join-error or
                   \* the must-join error while they had no registry entry,
                   \* and have not joined a second time since
  presence,        \* history: userCount and users of the user-joined or
                   \* user-left emitted last (0 and none before the first)
  isTyping,        \* state.isTyping of one page of app.js
  typingTimeout,   \* state.typingTimeout of that page: "null", the id of a
                   \* timer that is "pending", or of one that has "fired"
  messageInput,    \* elements.messageInput.value of that page
  emitted          \* history: what the socket of that page emitted, in order

\* The state of the server, with its history.
server == <<serverUp, sockets, connectedUsers, takenUsernames, now, out, last,
            joinOrder, leftCount, freeJoins, erred, presence>>

\* The state of the page.
page == <<isTyping, typingTimeout, messageInput, emitted>>

vars == <<serverUp, sockets, connectedUsers, takenUsernames, now, out, last,
          joinOrder, leftCount, freeJoins, erred, presence,
          isTyping, typingTimeout, messageInput, emitted>>

\* The sockets io.emit reaches: those connected to the namespace.
live == {c \in Conns : sockets[c] = "connected"}

(* ----------------------------- emissions ------------------------------- *)
NoData ==
  [username |-> <<>>, text |-> "", userCount |-> 0, users |-> <<>>,
   message |-> <<>>, id |-> <<>>, timestamp |-> 0]

\* io.emit written where socket.emit was meant.
socketEmitToAll(c, event, data) == [event |-> event, to |-> live, data |-> data]

\* socket.emit: to the socket itself.
socketEmit(c, event, data) == [event |-> event, to |-> {c}, data |-> data]

\* An emit to the sockets that have joined, not to all that are connected.
ioEmitToRegistered(conn, event, data) ==
  [event |-> event,
   to |-> {d \in conn : \E i \in 1..Len(connectedUsers) : connectedUsers[i].id = d},
   data |-> data]

\* io.emit: to every connected socket.
ioEmit(conn, event, data) == [event |-> event, to |-> conn, data |-> data]

\* A broadcast that reaches only the other sockets that have joined.
socketBroadcastEmitToJoined(c, conn, event, data) ==
  [event |-> event,
   to |-> {d \in conn \ {c} :
             \E i \in 1..Len(connectedUsers) : connectedUsers[i].id = d},
   data |-> data]

\* io.emit written where socket.broadcast.emit was meant.
socketBroadcastEmitToAll(c, conn, event, data) ==
  [event |-> event, to |-> conn, data |-> data]

\* socket.broadcast.emit: to every connected socket but this one.
socketBroadcastEmit(c, conn, event, data) ==
  [event |-> event, to |-> conn \ {c}, data |-> data]

\* The payload built from the registry as it was before the listener ran.
PresenceDataBeforeUpdate(username, users) ==
  [NoData EXCEPT !.username = username,
                 !.userCount = Len(connectedUsers),
                 !.users = [i \in 1..Len(connectedUsers) |-> connectedUsers[i].name]]

PresenceData(username, users) ==
  [NoData EXCEPT !.username = username,
                 !.userCount = MapSize(users),
                 !.users = MapValues(users)]

MessageData(c, username, trimmedMessage, t) ==
  [NoData EXCEPT !.id = <<t, c>>,
                 !.username = username,
                 !.message = trimmedMessage,
                 !.timestamp = t]

(* ------------------------------ Init ----------------------------------- *)
NoEvent == [op |-> "none", conn |-> 0, arg |-> <<>>]

Init ==
  /\ serverUp = TRUE
  /\ sockets = [c \in Conns |-> "idle"]
  /\ connectedUsers = <<>>
  /\ takenUsernames = {}
  /\ now = 0
  /\ out = <<>>
  /\ last = NoEvent
  /\ joinOrder = <<>>
  /\ leftCount = [c \in Conns |-> 0]
  /\ freeJoins = {}
  /\ erred = {}
  /\ presence = [userCount |-> 0, users |-> <<>>]
  /\ isTyping = FALSE
  /\ typingTimeout = "null"
  /\ messageInput = <<>>
  /\ emitted = <<>>

(* ------------------------------ actions -------------------------------- *)
\* history: the presence event among the emissions o, if there is one,
\* replaces the one remembered.
NotePresence(o) ==
  IF \E i \in 1..Len(o) : o[i].event \in {"user-joined", "user-left"}
  THEN LET i == CHOOSE i \in 1..Len(o) :
                  o[i].event \in {"user-joined", "user-left"}
       IN  [userCount |-> o[i].data.userCount, users |-> o[i].data.users]
  ELSE presence

\* Time passes between two listeners.
Tick ==
  /\ serverUp
  /\ now < MaxClock
  /\ now' = now + 1
  /\ out' = <<>>
  /\ last' = [op |-> "tick", conn |-> 0, arg |-> <<>>]
  /\ UNCHANGED <<serverUp, sockets, connectedUsers, takenUsernames,
                 joinOrder, leftCount, freeJoins, erred>>
  /\ presence' = NotePresence(out')
  /\ UNCHANGED page

\* io.on("connection"): a new socket; the listener only logs.
Connection(c) ==
  /\ serverUp
  /\ sockets[c] = "idle"
  /\ sockets' = [sockets EXCEPT ![c] = "connected"]
  /\ out' = <<>>
  /\ last' = [op |-> "connection", conn |-> c, arg |-> <<>>]
  /\ UNCHANGED <<serverUp, connectedUsers, takenUsernames, now,
                 joinOrder, leftCount, freeJoins, erred>>
  /\ presence' = NotePresence(out')
  /\ UNCHANGED page

\* A listener threw: nothing catches it, the process ends where it stands.
Crash ==
  /\ serverUp' = FALSE
  /\ out' = <<>>
  /\ UNCHANGED <<sockets, connectedUsers, takenUsernames, now,
                 joinOrder, leftCount, freeJoins, erred>>

\* The callback of some() without its comparison: any stored name matches.
isTakenByAnyone(taken, lowerUsername) ==
  \E name \in taken : toLowerCase(name) # <<>>

\* The check with the stored names left in the case they were typed in.
isTakenCaseSensitive(taken, lowerUsername) ==
  \E name \in taken : name = lowerUsername

isTaken(taken, lowerUsername) ==
  \E name \in taken : toLowerCase(name) = lowerUsername

\* history: a request for a name that is non-empty and not taken when it is
\* handled is remembered, with its outcome, until the next disconnect.
NoteJoin(c, username, ok) ==
  IF /\ Stripped(username) # <<>>
     /\ \A name \in takenUsernames : ~SameName(name, Stripped(username))
  THEN freeJoins \cup {[name |-> Stripped(username), conn |-> c, ok |-> ok]}
  ELSE freeJoins

\* history: an error sent to a socket that has no registry entry.
NoteError(c) == IF MapHas(connectedUsers, c) THEN erred ELSE erred \cup {c}

\* socket.on("user-join")
UserJoin(c, username) ==
  /\ serverUp
  /\ sockets[c] = "connected"
  /\ last' = [op |-> "user-join", conn |-> c, arg |-> username]
  /\ IF ~HasTrim(username) THEN Crash
     ELSE
       LET trimmedUsername == trim(username)
           lowerUsername == toLowerCase(trimmedUsername)
       IN  IF ~Truthy(trimmedUsername)
           THEN /\ out' = <<socketEmit(c, "join-error",
                              [NoData EXCEPT !.text = "Username cannot be empty"])>>
                /\ freeJoins' = NoteJoin(c, username, FALSE)
                /\ erred' = NoteError(c)
                /\ UNCHANGED <<serverUp, sockets, connectedUsers, takenUsernames,
                               now, joinOrder, leftCount>>
           ELSE IF isTaken(takenUsernames, lowerUsername)
           THEN /\ out' = <<socketEmit(c, "join-error",
                              [NoData EXCEPT !.text =
                                 "Username is already taken. Please choose another."])>>
                /\ freeJoins' = NoteJoin(c, username, FALSE)
                /\ erred' = NoteError(c)
                /\ UNCHANGED <<serverUp, sockets, connectedUsers, takenUsernames,
                               now, joinOrder, leftCount>>
           ELSE /\ connectedUsers' = MapSet(connectedUsers, c, trimmedUsername)
                /\ takenUsernames' = SetAdd(takenUsernames, trimmedUsername)
                /\ out' = <<socketEmit(c, "join-success",
                              [NoData EXCEPT !.username = trimmedUsername]),
                            ioEmit(live, "user-joined",
                              PresenceData(trimmedUsername, connectedUsers'))>>
                /\ joinOrder' = IF MapHas(connectedUsers, c) THEN joinOrder
                                ELSE Append(joinOrder, c)
                /\ freeJoins' = NoteJoin(c, username, TRUE)
                /\ erred' = IF MapHas(connectedUsers, c) THEN erred \ {c} ELSE erred
                /\ UNCHANGED <<serverUp, sockets, now, leftCount>>
  /\ presence' = NotePresence(out')
  /\ UNCHANGED page

\* The listener without its check.
isRegisteredUnchecked(username) == TRUE

\* if (!username): only a socket with a registry entry may send.
isRegistered(username) == Truthy(username)

\* socket.on("chat-message")
ChatMessage(c, message) ==
  /\ serverUp
  /\ sockets[c] = "connected"
  /\ last' = [op |-> "chat-message", conn |-> c, arg |-> message]
  /\ LET username == MapGet(connectedUsers, c)
     IN  IF ~isRegistered(username)
         THEN /\ out' = <<socketEmit(c, "error",
                            [NoData EXCEPT !.text = "You must join the chat first"])>>
              /\ erred' = NoteError(c)
              /\ UNCHANGED <<serverUp, sockets, connectedUsers, takenUsernames,
                             now, joinOrder, leftCount, freeJoins>>
         ELSE IF ~HasTrim(message) THEN Crash
         ELSE LET trimmedMessage == trim(message)
              IN  /\ out' = IF ~Truthy(trimmedMessage) THEN <<>>
                            ELSE <<ioEmit(live, "new-message",
                                     MessageData(c, username, trimmedMessage, now))>>
                  /\ UNCHANGED <<serverUp, sockets, connectedUsers, takenUsernames,
                                 now, joinOrder, leftCount, freeJoins, erred>>
  /\ presence' = NotePresence(out')
  /\ UNCHANGED page

\* The listener without its check.
hasUsernameUnchecked(username) == TRUE

\* if (username): a typing notice goes out only for a socket with a name.
hasUsername(username) == Truthy(username)

\* socket.on("typing")
Typing(c) ==
  /\ serverUp
  /\ sockets[c] = "connected"
  /\ last' = [op |-> "typing", conn |-> c, arg |-> <<>>]
  /\ LET username == MapGet(connectedUsers, c)
     IN  out' = IF hasUsername(username)
                THEN <<socketBroadcastEmit(c, live, "user-typing",
                         [NoData EXCEPT !.username = username])>>
                ELSE <<>>
  /\ UNCHANGED <<serverUp, sockets, connectedUsers, takenUsernames, now,
                 joinOrder, leftCount, freeJoins, erred>>
  /\ presence' = NotePresence(out')
  /\ UNCHANGED page

\* socket.on("stop-typing")
StopTyping(c) ==
  /\ serverUp
  /\ sockets[c] = "connected"
  /\ last' = [op |-> "stop-typing", conn |-> c, arg |-> <<>>]
  /\ LET username == MapGet(connectedUsers, c)
     IN  out' = IF hasUsername(username)
                THEN <<socketBroadcastEmit(c, live, "user-stop-typing",
                         [NoData EXCEPT !.username = username])>>
                ELSE <<>>
  /\ UNCHANGED <<serverUp, sockets, connectedUsers, takenUsernames, now,
                 joinOrder, leftCount, freeJoins, erred>>
  /\ presence' = NotePresence(out')
  /\ UNCHANGED page

\* The body without its if (username): it announces every disconnect.
DisconnectBodyUnchecked(c, conn) ==
  LET username == MapGet(connectedUsers, c)
  IN  /\ connectedUsers' = MapDelete(connectedUsers, c)
      /\ takenUsernames' = SetDelete(takenUsernames, username)
      /\ out' = <<ioEmit(conn, "user-left",
                    PresenceData(username, connectedUsers'))>>
      /\ joinOrder' = SelectSeq(joinOrder, LAMBDA d : d # c)
      /\ leftCount' = [leftCount EXCEPT ![c] = @ + 1]

\* The body of the disconnect listener, for socket c, with conn the sockets
\* still connected when it runs.
DisconnectBody(c, conn) ==
  LET username == MapGet(connectedUsers, c)
  IN  IF Truthy(username)
      THEN /\ connectedUsers' = MapDelete(connectedUsers, c)
           /\ takenUsernames' = SetDelete(takenUsernames, username)
           /\ out' = <<ioEmit(conn, "user-left",
                         PresenceData(username, connectedUsers'))>>
           /\ joinOrder' = SelectSeq(joinOrder, LAMBDA d : d # c)
           /\ leftCount' = [leftCount EXCEPT ![c] = @ + 1]
      ELSE /\ out' = <<>>
           /\ UNCHANGED <<connectedUsers, takenUsernames, joinOrder, leftCount>>

\* socket.on("disconnect"): the transport closed (gracefully or not); the
\* socket has left the namespace when the listener runs.
Disconnect(c) ==
  /\ serverUp
  /\ sockets[c] = "connected"
  /\ sockets' = [sockets EXCEPT ![c] = "closed"]
  /\ last' = [op |-> "disconnect", conn |-> c, arg |-> <<>>]
  /\ freeJoins' = {}
  /\ erred' = erred \ {c}
  /\ DisconnectBody(c, live \ {c})
  /\ UNCHANGED <<serverUp, now>>
  /\ presence' = NotePresence(out')
  /\ UNCHANGED page

\* The same listener run once more for a socket that is already closed.
DisconnectAgain(c) ==
  /\ serverUp
  /\ sockets[c] = "closed"
  /\ last' = [op |-> "disconnect-again", conn |-> c, arg |-> <<>>]
  /\ DisconnectBody(c, live)
  /\ UNCHANGED <<serverUp, sockets, now, freeJoins, erred>>
  /\ presence' = NotePresence(out')
  /\ UNCHANGED page

Next ==
  \/ Tick
  \/ \E c \in Conns : Connection(c)
  \/ \E c \in Conns, username \in Payloads : UserJoin(c, username)
  \/ \E c \in Conns, message \in Payloads : ChatMessage(c, message)
  \/ \E c \in Conns : Typing(c)
  \/ \E c \in Conns : StopTyping(c)
  \/ \E c \in Conns : Disconnect(c)
  \/ \E c \in Conns : DisconnectAgain(c)

Spec == Init /\ [][Next]_vars

TypeOK ==
  /\ serverUp \in BOOLEAN
  /\ sockets \in [Conns -> {"idle", "connected", "closed"}]
  /\ takenUsernames \subseteq Words
  /\ now \in 0..MaxClock
  /\ presence.userCount \in 0..NumConns
  /\ isTyping \in BOOLEAN
  /\ typingTimeout \in {"null", "pending", "fired"}
  /\ messageInput \in Strings
  /\ Len(emitted) <= MaxEmitted

(* --------------------------- the page of app.js ------------------------ *)
\* One page on its chat screen: the user edits the message input, submits
\* the message form, and the timer of the typing indicator runs out.
pageEmit(event, arg) == [event |-> event, arg |-> arg]

\* The input listener of the message input, after the user changed its value
\* to value.
handleTyping(value) ==
  /\ value # messageInput
  /\ Len(emitted) < MaxEmitted
  /\ messageInput' = value
  /\ IF ~isTyping
     THEN /\ isTyping' = TRUE
          /\ emitted' = Append(emitted, pageEmit("typing", <<>>))
     ELSE UNCHANGED <<isTyping, emitted>>
  /\ typingTimeout' = "pending"
  /\ UNCHANGED server

\* The submit listener of the message form.
handleSendMessage ==
  /\ Len(emitted) + 2 <= MaxEmitted
  /\ LET message == trim(messageInput)
     IN  IF ~Truthy(message)
         THEN UNCHANGED <<isTyping, messageInput, emitted>>
         ELSE /\ messageInput' = <<>>
              /\ emitted' =
                   IF isTyping
                   THEN emitted \o <<pageEmit("chat-message", message),
                                     pageEmit("stop-typing", <<>>)>>
                   ELSE Append(emitted, pageEmit("chat-message", message))
              /\ isTyping' = FALSE
  /\ UNCHANGED typingTimeout
  /\ UNCHANGED server

\* The callback of setTimeout, 2000 ms after the last input event.
typingTimeoutFires ==
  /\ typingTimeout = "pending"
  /\ Len(emitted) < MaxEmitted
  /\ isTyping' = FALSE
  /\ emitted' = Append(emitted, pageEmit("stop-typing", <<>>))
  /\ typingTimeout' = "fired"
  /\ UNCHANGED messageInput
  /\ UNCHANGED server

PageNext ==
  \/ \E value \in Strings : handleTyping(value)
  \/ handleSendMessage
  \/ typingTimeoutFires

PageSpec == Init /\ [][PageNext]_vars

(* ------------------------- reading the emissions ----------------------- *)
\* The emissions of event that the last step made.
Sent(event) == {i \in 1..Len(out) : out[i].event = event}

\* How many emissions of event the last step delivered to socket d.
Received(d, event) == Cardinality({i \in Sent(event) : d \in out[i].to})

RegistryIds == {connectedUsers[i].id : i \in 1..Len(connectedUsers)}

RegistryNames == {connectedUsers[i].name : i \in 1..Len(connectedUsers)}

(* -------------------------------- C1 ----------------------------------- *)
\* C1: in every reachable state, no two distinct connections of the registry
\* hold display names that are equal when case is ignored.
UniqueNames ==
  \A i \in 1..Len(connectedUsers), j \in 1..Len(connectedUsers) :
    i # j => /\ connectedUsers[i].id # connectedUsers[j].id
             /\ ~SameName(connectedUsers[i].name, connectedUsers[j].name)

\* Two connections are in the registry, and the request handled last was for
\* a name the other one holds in another case: it was turned down.
UniqueNamesWitness ==
  /\ MapSize(connectedUsers) = 2
  /\ last.op = "user-join"
  /\ \E i \in 1..Len(connectedUsers) :
       /\ connectedUsers[i].id # last.conn
       /\ connectedUsers[i].name # Stripped(last.arg)
       /\ SameName(connectedUsers[i].name, Stripped(last.arg))

(* -------------------------------- C2 ----------------------------------- *)
\* C2: after any sequence of user-join and disconnect events, also a
\* user-join of a connection that is already in the registry, takenUsernames
\* is exactly the set of the values stored in connectedUsers.
DirectoryIsRegistryValues == takenUsernames = RegistryNames

(* -------------------------------- C3 ----------------------------------- *)
JoinAccepted(o) == \E i \in 1..Len(o) : o[i].event = "join-success"

\* The last step turned down the request of socket c: one join-error, to c.
JoinRejected(o, c) ==
  Len(o) = 1 /\ o[1].event = "join-error" /\ o[1].to = {c}

\* C3 as stated: of two join requests of different connections for the same
\* name (after trimming, ignoring case), handled one right after the other,
\* exactly one is accepted.
RaceHasOneWinner ==
  [][(/\ last.op = "user-join" /\ HasTrim(last.arg)
      /\ last'.op = "user-join" /\ HasTrim(last'.arg)
      /\ last.conn # last'.conn
      /\ SameName(Stripped(last.arg), Stripped(last'.arg)))
     => (JoinAccepted(out) # JoinAccepted(out'))]_vars

\* C3 amended: when the name is non-empty after trimming and matches no entry
\* of takenUsernames as the first of the two requests is handled, the first
\* is accepted (join-success, and a registry entry that lasts until a
\* disconnect) and every request of another connection for that name that
\* follows with no disconnect in between is rejected with join-error.
RaceForFreeNameHasOneWinner ==
  /\ \A r \in freeJoins : r.ok /\ MapHas(connectedUsers, r.conn)
  /\ (last.op = "user-join" /\ HasTrim(last.arg)) =>
       \A r \in freeJoins :
         (r.conn # last.conn /\ SameName(r.name, Stripped(last.arg)))
           => (JoinRejected(out, last.conn) /\ ~JoinAccepted(out))

\* A second connection has just asked for a name that a first one won since
\* the last disconnect.
RaceForFreeNameWitness ==
  /\ last.op = "user-join" /\ HasTrim(last.arg)
  /\ \E r \in freeJoins :
       r.conn # last.conn /\ SameName(r.name, Stripped(last.arg))

(* -------------------------------- C4 ----------------------------------- *)
\* The request handled by the step is a join whose name is empty after
\* trimming or matches a taken name when case is ignored.
JoinToReject ==
  /\ last'.op = "user-join" /\ HasTrim(last'.arg)
  /\ \/ Stripped(last'.arg) = <<>>
     \/ \E name \in takenUsernames : SameName(name, Stripped(last'.arg))

\* C4: a rejected join leaves connectedUsers and takenUsernames as they
\* were, emits join-error to the requesting connection only and emits no
\* user-joined (nothing else at all).
RejectedJoinChangesNothing ==
  [][JoinToReject =>
       /\ connectedUsers' = connectedUsers
       /\ takenUsernames' = takenUsernames
       /\ JoinRejected(out', last'.conn)
       /\ Sent("user-joined")' = {}]_vars

\* A join was just rejected because another connection holds the name in
\* another case.
RejectedJoinWitness ==
  /\ last.op = "user-join" /\ HasTrim(last.arg)
  /\ JoinRejected(out, last.conn)
  /\ Stripped(last.arg) \notin takenUsernames
  /\ \E name \in takenUsernames : SameName(name, Stripped(last.arg))
  /\ ~MapHas(connectedUsers, last.conn)

(* -------------------------------- C5 ----------------------------------- *)
\* C5: an accepted join stores the trimmed requested name for the connection
\* and sends one join-success, carrying that name, to the joining connection
\* only; a join-success or join-error is only ever sent in answer to a
\* user-join and only to the connection that sent it.
AcceptedJoinAnswersJoinerOnly ==
  [][/\ \A i \in 1..Len(out') :
          out'[i].event \in {"join-success", "join-error"}
            => (last'.op = "user-join" /\ out'[i].to = {last'.conn})
     /\ (last'.op = "user-join" /\
           (connectedUsers' # connectedUsers \/ JoinAccepted(out')))
         => /\ MapGet(connectedUsers', last'.conn) = Stripped(last'.arg)
            /\ Cardinality(Sent("join-success")') = 1
            /\ \A i \in Sent("join-success")' :
                  out'[i].data.username = Stripped(last'.arg)]_vars

\* A name sent with white space around it was accepted while another
\* connection was there to overhear.
AcceptedJoinWitness ==
  /\ last.op = "user-join" /\ JoinAccepted(out)
  /\ last.arg # Stripped(last.arg)
  /\ live \ {last.conn} # {}

(* -------------------------------- C6 ----------------------------------- *)
\* The display names of the connections in the registry, in the order in
\* which the connections entered it.
NamesInJoinOrder ==
  [k \in 1..Len(joinOrder) |-> MapGet(connectedUsers, joinOrder[k])]

\* C6: every user-joined and user-left carries as users the display names of
\* the connections in the registry at emission time (the joiner included,
\* the leaver not) in the order the connections joined, and as userCount the
\* length of that sequence.
PresenceListsRegistry ==
  /\ {joinOrder[k] : k \in 1..Len(joinOrder)} = RegistryIds
  /\ Len(joinOrder) = Cardinality(RegistryIds)
  /\ \A i \in Sent("user-joined") \cup Sent("user-left") :
       /\ out[i].data.users = NamesInJoinOrder
       /\ out[i].data.userCount = Len(NamesInJoinOrder)
  /\ \A i \in Sent("user-joined") : last.conn \in RegistryIds
  /\ \A i \in Sent("user-left") : last.conn \notin RegistryIds

\* A joins, then B joins: the second user-joined counts 2 and lists A's name
\* before B's.
PresenceListsWitness ==
  /\ last.op = "user-join"
  /\ \E i \in Sent("user-joined") :
       /\ out[i].data.userCount = 2
       /\ out[i].data.users[2] = out[i].data.username
       /\ joinOrder[2] = last.conn

(* -------------------------------- C7 ----------------------------------- *)
\* C7: when a connection that is in the registry disconnects, afterwards the
\* registry has no entry for it (the other entries are as before), its
\* display name is not in takenUsernames, and every connection that is still
\* live receives exactly one user-left naming it, with userCount and users
\* those of the registry after the removal.
DisconnectCleansUp ==
  [][(last'.op = "disconnect" /\ last'.conn \in RegistryIds) =>
       LET c == last'.conn
           name == MapGet(connectedUsers, c)
           rest == SelectSeq(connectedUsers, LAMBDA e : e.id # c)
       IN  /\ connectedUsers' = rest
           /\ name \notin takenUsernames'
           /\ c \notin live'
           /\ \A d \in live' : Received(d, "user-left")' = 1
           /\ \A i \in Sent("user-left")' :
                 /\ out'[i].data.username = name
                 /\ out'[i].data.userCount = Len(rest)
                 /\ out'[i].data.users = [k \in 1..Len(rest) |-> rest[k].name]]_vars

\* A joined connection has just disconnected, and a connection that stays
\* in the registry was there to be told.
DisconnectWitness ==
  /\ last.op = "disconnect"
  /\ leftCount[last.conn] = 1
  /\ MapSize(connectedUsers) = 1
  /\ \A d \in RegistryIds : d \in live /\ Received(d, "user-left") = 1

(* -------------------------------- C8 ----------------------------------- *)
\* C8: the disconnect cleanup, run for a connection that is not in the
\* registry (it never joined, or it has left already), raises no error,
\* changes neither connectedUsers nor takenUsernames and emits nothing; no
\* connection ever has more than one user-left emitted for it.
LeaveIsIdempotent ==
  [][/\ (last'.op \in {"disconnect", "disconnect-again"}
          /\ last'.conn \notin RegistryIds)
         => /\ serverUp'
            /\ connectedUsers' = connectedUsers
            /\ takenUsernames' = takenUsernames
            /\ out' = <<>>
     /\ \A c \in Conns : leftCount'[c] <= 1]_vars

\* The cleanup has just run again for a connection whose departure had
\* already been announced.
LeaveTwiceWitness ==
  /\ last.op = "disconnect-again"
  /\ leftCount[last.conn] = 1
  /\ out = <<>>

(* -------------------------------- C9 ----------------------------------- *)
\* C9: for a chat-message with a non-empty trimmed body from a connection in
\* the registry, every live connection, the sender included, receives
\* exactly one new-message, whose username is the sender's display name and
\* whose message is the trimmed body.
MessageReachesEveryone ==
  (/\ last.op = "chat-message" /\ HasTrim(last.arg)
   /\ Stripped(last.arg) # <<>>
   /\ last.conn \in RegistryIds)
  => /\ last.conn \in live
     /\ \A d \in live : Received(d, "new-message") = 1
     /\ \A i \in Sent("new-message") :
          /\ out[i].data.username = MapGet(connectedUsers, last.conn)
          /\ out[i].data.message = Stripped(last.arg)

\* A message sent with white space around it went out while a connection
\* that has not joined was listening too.
MessageWitness ==
  /\ last.op = "chat-message" /\ HasTrim(last.arg)
  /\ Stripped(last.arg) # <<>> /\ Stripped(last.arg) # last.arg
  /\ last.conn \in RegistryIds
  /\ \E d \in live : d \notin RegistryIds /\ Received(d, "new-message") = 1

(* -------------------------------- C10 ---------------------------------- *)
\* C10: a chat-message from a connection with no registry entry is answered
\* with one error event, sent to that connection only, and no new-message is
\* delivered to anyone.
UnjoinedMessageIsRefused ==
  (last.op = "chat-message" /\ last.conn \notin RegistryIds)
  => /\ serverUp
     /\ Len(out) = 1
     /\ out[1].event = "error"
     /\ out[1].to = {last.conn}
     /\ Sent("new-message") = {}

\* A connection that never joined sent a message while a joined one was
\* connected.
UnjoinedMessageWitness ==
  /\ last.op = "chat-message" /\ last.conn \notin RegistryIds
  /\ HasTrim(last.arg) /\ Stripped(last.arg) # <<>>
  /\ RegistryIds \cap live # {}
  /\ Sent("error") # {}

(* -------------------------------- C11 ---------------------------------- *)
TypingEvents == Sent("user-typing") \cup Sent("user-stop-typing")

\* C11: a user-typing or user-stop-typing is only emitted for a typing or
\* stop-typing request, and never reaches the connection that sent the
\* request.
TypingSkipsSender ==
  \A i \in TypingEvents :
    /\ last.op \in {"typing", "stop-typing"}
    /\ last.conn \notin out[i].to

\* A joined connection typed while another connection was there: the other
\* one was told, the typist was not.
TypingSkipsSenderWitness ==
  /\ last.op = "typing"
  /\ last.conn \in live
  /\ \E i \in Sent("user-typing") :
       out[i].to # {} /\ out[i].data.username = MapGet(connectedUsers, last.conn)
  /\ Received(last.conn, "user-typing") = 0

(* -------------------------------- C12 ---------------------------------- *)
\* C12: whatever payload an inbound event carries, a payload that is not a
\* string included, its listener ends without an uncaught error and the
\* server goes on handling events.
ServerSurvivesEveryEvent == serverUp

(* -------------------------------- C13 ---------------------------------- *)
\* C13: a join is accepted only for a connection that is not in the registry
\* (so at most once in its lifetime), and the display name of a connection
\* in the registry does not change until the connection departs.
JoinsAtMostOnce ==
  [][/\ (last'.op = "user-join" /\ JoinAccepted(out'))
         => last'.conn \notin RegistryIds
     /\ \A c \in RegistryIds \cap RegistryIds' :
          MapGet(connectedUsers', c) = MapGet(connectedUsers, c)]_vars

(* -------------------------------- C14 ---------------------------------- *)
\* How many emissions of event in o reach socket d.
ReceivedIn(o, d, event) ==
  Cardinality({i \in 1..Len(o) : o[i].event = event /\ d \in o[i].to})

\* The request handled by the step is a typing or stop-typing of a
\* connection that has no registry entry.
UnjoinedTyping ==
  /\ last'.op \in {"typing", "stop-typing"}
  /\ last'.conn \notin RegistryIds

\* C14 as stated: such a request is answered with an error event sent to the
\* connection, and nothing goes to the other connections.
UnjoinedTypingGetsError ==
  [][UnjoinedTyping =>
       /\ ReceivedIn(out', last'.conn, "error") = 1
       /\ \A i \in 1..Len(out') : out'[i].to \subseteq {last'.conn}]_vars

\* C14 amended: such a request is ignored in silence: no event at all is
\* sent, neither to the connection that typed nor to any other one, and
\* connectedUsers and takenUsernames stay as they were.
UnjoinedTypingIsIgnored ==
  [][UnjoinedTyping =>
       /\ out' = <<>>
       /\ serverUp'
       /\ connectedUsers' = connectedUsers
       /\ takenUsernames' = takenUsernames]_vars

\* A connection that has not joined typed while a joined one was connected.
UnjoinedTypingWitness ==
  /\ last.op \in {"typing", "stop-typing"}
  /\ last.conn \in live \ RegistryIds
  /\ RegistryIds \cap live # {}
  /\ out = <<>>

(* -------------------------------- C15 ---------------------------------- *)
\* C15: a connection without a registry entry that is sent join-error or the
\* must-join error stays connected and without an entry, and the server
\* stays up; a later user-join of that connection with a name that is
\* non-empty after trimming and matches no entry of takenUsernames at that
\* time is accepted.
ErrorsAreRecoverable ==
  [][/\ \A c \in Conns \ RegistryIds :
          (ReceivedIn(out', c, "join-error") + ReceivedIn(out', c, "error") > 0)
            => /\ serverUp'
               /\ sockets'[c] = "connected"
               /\ c \notin RegistryIds'
               /\ c \in erred'
     /\ (/\ last'.op = "user-join" /\ HasTrim(last'.arg)
         /\ last'.conn \in erred \ RegistryIds
         /\ Stripped(last'.arg) # <<>>
         /\ \A name \in takenUsernames : ~SameName(name, Stripped(last'.arg)))
        => /\ ReceivedIn(out', last'.conn, "join-success") = 1
           /\ ReceivedIn(out', last'.conn, "join-error") = 0
           /\ MapGet(connectedUsers', last'.conn) = Stripped(last'.arg)]_vars

\* A connection that had been turned away joined after all, while the name
\* of another connection stayed taken.
ErrorsAreRecoverableWitness ==
  /\ last.op = "user-join" /\ JoinAccepted(out)
  /\ last.conn \in erred
  /\ MapSize(connectedUsers) = 2

(* -------------------------------- C16 ---------------------------------- *)
\* Some live connection holds name, in whatever case, in the registry.
HeldByLiveConnection(name) ==
  \E i \in 1..Len(connectedUsers) :
    /\ connectedUsers[i].id \in live
    /\ SameName(connectedUsers[i].name, name)

\* C16: once a connection has disconnected, a user-join of a live connection
\* with a non-empty name that no live connection holds is accepted, and no
\* name is in takenUsernames without a live connection holding it.
ReleasedNamesAreFree ==
  [][(\E d \in Conns : sockets[d] = "closed") =>
       /\ \A name \in takenUsernames : HeldByLiveConnection(name)
       /\ (/\ last'.op = "user-join" /\ HasTrim(last'.arg)
           /\ Stripped(last'.arg) # <<>>
           /\ ~HeldByLiveConnection(Stripped(last'.arg)))
          => JoinAccepted(out')]_vars

(* -------------------------------- C17 ---------------------------------- *)
\* C17: two new-message events emitted one after the other, also by the same
\* connection within one millisecond, carry different ids.
MessageIdsDiffer ==
  [][\A i \in Sent("new-message") :
       \A j \in 1..Len(out') :
         out'[j].event = "new-message" => out'[j].data.id # out[i].data.id]_vars

(* -------------------------------- C18 ---------------------------------- *)
\* C18: every key of the registry is the id of a connected socket, and it
\* entered the registry in a step that sent join-success to that socket; the
\* id of a closed socket is never in the registry, and an event handled for
\* a closed socket changes neither connectedUsers nor takenUsernames and
\* emits nothing.
RegistryKeysAreLiveAndJoined ==
  [][/\ \A c \in RegistryIds' :
          /\ sockets'[c] = "connected"
          /\ c \notin RegistryIds =>
                (last'.op = "user-join" /\ last'.conn = c
                 /\ ReceivedIn(out', c, "join-success") = 1)
     /\ \A c \in Conns :
          sockets[c] = "closed" => (sockets'[c] = "closed" /\ c \notin RegistryIds')
     /\ (last'.conn \in Conns /\ sockets[last'.conn] = "closed")
         => /\ connectedUsers' = connectedUsers
            /\ takenUsernames' = takenUsernames
            /\ out' = <<>>]_vars

\* One connection has joined and left, the other is in the registry.
RegistryKeysWitness ==
  /\ \E c \in Conns : sockets[c] = "closed" /\ leftCount[c] = 1
  /\ \E c \in RegistryIds : sockets[c] = "connected"

(* -------------------------------- C19 ---------------------------------- *)
BroadcastsOnBehalf ==
  Sent("new-message") \cup Sent("user-typing") \cup Sent("user-stop-typing")

\* C19: a new-message, user-typing or user-stop-typing is only emitted while
\* handling a request of a connected socket that has a registry entry, and
\* it carries the name of that entry; none is emitted for a socket whose
\* disconnect has been handled.
NoBroadcastForDeparted ==
  \A i \in BroadcastsOnBehalf :
    /\ last.op \in {"chat-message", "typing", "stop-typing"}
    /\ sockets[last.conn] = "connected"
    /\ last.conn \in RegistryIds
    /\ leftCount[last.conn] = 0
    /\ out[i].data.username = MapGet(connectedUsers, last.conn)

\* After one connection has left, the one that remains sends a message
\* under its own name.
NoBroadcastForDepartedWitness ==
  /\ \E c \in Conns : sockets[c] = "closed" /\ leftCount[c] = 1
  /\ last.op = "chat-message"
  /\ Sent("new-message") # {}

(* -------------------------------- C20 ---------------------------------- *)
\* C20: a chat-message of a connection in the registry whose body is empty
\* after trimming is ignored in silence: no event is sent to anyone, and
\* connectedUsers and takenUsernames stay as they were.
EmptyMessageIsIgnored ==
  [][(/\ last'.op = "chat-message" /\ HasTrim(last'.arg)
      /\ last'.conn \in RegistryIds
      /\ Stripped(last'.arg) = <<>>)
     => /\ out' = <<>>
        /\ serverUp'
        /\ connectedUsers' = connectedUsers
        /\ takenUsernames' = takenUsernames]_vars

\* A joined connection sent nothing but white space while another
\* connection was there.
EmptyMessageWitness ==
  /\ last.op = "chat-message"
  /\ last.conn \in RegistryIds
  /\ last.arg = <<" ">>
  /\ live \ {last.conn} # {}
  /\ out = <<>>

CanSend(d) ==
  /\ serverUp
  /\ sockets[d] = "connected"
  /\ isRegistered(MapGet(connectedUsers, d))

\* The registry entries of the connections other than c stay as they are.
OthersKeepEntries(c) ==
  \A d \in Conns \ {c} :
    /\ MapHas(connectedUsers', d) = MapHas(connectedUsers, d)
    /\ MapGet(connectedUsers', d) = MapGet(connectedUsers, d)

\* C22: an event handled for one connection (join, message, typing,
\* stop-typing, disconnect) leaves the registry entry of every other
\* connection as it was, and no other connection that could send messages
\* before it is unable to send them after it.
FrameForOtherConnections ==
  [][last'.conn \in Conns =>
       /\ OthersKeepEntries(last'.conn)
       /\ \A d \in Conns \ {last'.conn} : CanSend(d) => CanSend(d)']_vars

(* -------------------------------- C23 ---------------------------------- *)
\* The page of app.js behind one socket: state.currentUser, state.users and
\* the system messages in the messages container.
NoUser == <<"null">>

Pages ==
  {[currentUser |-> u, users |-> <<>>, system |-> <<>>] : u \in Words \cup {NoUser}}

updateUsersList(st, users) == [st EXCEPT !.users = users]

addSystemMessage(st, username, type) ==
  [st EXCEPT !.system = Append(@, [username |-> username, type |-> type])]

\* A join-success listener that forgets state.currentUser.
onJoinSuccessKeepsUser(st, username) == st

\* socket.on("join-success") of the page
onJoinSuccess(st, username) == [st EXCEPT !.currentUser = username]

\* socket.on("user-joined") of the page
onUserJoined(st, data) ==
  LET listed == updateUsersList(st, data.users)
  IN  IF data.username # listed.currentUser
      THEN addSystemMessage(listed, data.username, "joined")
      ELSE listed

\* socket.on("user-left") of the page
onUserLeft(st, data) ==
  addSystemMessage(updateUsersList(st, data.users), data.username, "left")

\* The page handles one event; the listeners of the other events leave
\* these fields alone.
Handle(st, e) ==
  CASE e.event = "join-success" -> onJoinSuccess(st, e.data.username)
    [] e.event = "user-joined" -> onUserJoined(st, e.data)
    [] e.event = "user-left" -> onUserLeft(st, e.data)
    [] OTHER -> st

\* The page handles the events of es one after the other.
RECURSIVE Receive(_, _)
Receive(st, es) ==
  IF es = <<>> THEN st ELSE Receive(Handle(st, Head(es)), Tail(es))

\* What socket c is sent by the emissions o, in the order they were made: the
\* transport keeps the order of the packets of one connection.
Delivered(o, c) == SelectSeq(o, LAMBDA e : c \in e.to)

\* C23: for an accepted join, the joining connection is sent join-success
\* first and the user-joined of that join second, both naming the same user;
\* so whatever state.currentUser was, the page has set it to that name when
\* it handles its own user-joined, and it adds no "joined the chat" system
\* message for itself.
JoinSuccessComesFirst ==
  (last.op = "user-join" /\ JoinAccepted(out)) =>
    LET es == Delivered(out, last.conn)
    IN  /\ Len(es) = 2
        /\ es[1].event = "join-success"
        /\ es[2].event = "user-joined"
        /\ es[2].data.username = es[1].data.username
        /\ \A st \in Pages :
             /\ Handle(st, es[1]).currentUser = es[2].data.username
             /\ Receive(st, es).system = <<>>
             /\ Receive(st, es).users = es[2].data.users

\* A join was accepted while another connection was there: the page of the
\* other one shows the system message, the page of the joiner does not.
JoinSuccessComesFirstWitness ==
  /\ last.op = "user-join" /\ JoinAccepted(out)
  /\ \E d \in live \ {last.conn} :
       \A st \in Pages :
         st.currentUser # MapGet(connectedUsers, last.conn) =>
           /\ Receive(st, Delivered(out, d)).system # <<>>
           /\ Receive(st, Delivered(out, last.conn)).system = <<>>

(* -------------------------------- C24 ---------------------------------- *)
\* The elements of a list of names.
Listed(users) == {users[k] : k \in 1..Len(users)}

\* C24: every user-joined has a userCount one greater than that of the
\* presence event emitted before it (1 if it is the first), and as users the
\* users of that event plus the user it names; every user-left has a
\* userCount one smaller, and as users those of that event minus the user it
\* names.
PresenceIsStepByStep ==
  [][/\ \A i \in 1..Len(out') :
          out'[i].event = "user-joined" =>
            /\ out'[i].data.userCount = presence.userCount + 1
            /\ Len(out'[i].data.users) = Len(presence.users) + 1
            /\ out'[i].data.username \notin Listed(presence.users)
            /\ Listed(out'[i].data.users) =
                 Listed(presence.users) \cup {out'[i].data.username}
     /\ \A i \in 1..Len(out') :
          out'[i].event = "user-left" =>
            /\ out'[i].data.userCount = presence.userCount - 1
            /\ Len(out'[i].data.users) = Len(presence.users) - 1
            /\ out'[i].data.username \in Listed(presence.users)
            /\ Listed(out'[i].data.users) =
                 Listed(presence.users) \ {out'[i].data.username}]_vars

(* -------------------------------- C25 ---------------------------------- *)
BroadcastsToAll ==
  Sent("user-joined") \cup Sent("user-left") \cup Sent("new-message")

\* C25: every user-joined, user-left and new-message is delivered, once, to
\* every live connection, whether it is in the registry or not; the page of
\* a connection that never joined so holds the users of every presence
\* event. Only sending needs a registry entry: a new-message is emitted for
\* a sender that has one.
BroadcastReachesAllLive ==
  \A i \in BroadcastsToAll :
    /\ out[i].to = live
    /\ \A d \in live :
         /\ Received(d, out[i].event) = 1
         /\ out[i].event # "new-message" =>
               \A st \in Pages :
                 Receive(st, Delivered(out, d)).users = out[i].data.users
    /\ out[i].event = "new-message" => last.conn \in RegistryIds

\* A connection that has not joined is told that the only user has left: it
\* is sent the empty list.
BroadcastReachesUnjoinedWitness ==
  /\ last.op = "disconnect"
  /\ \E i \in Sent("user-left") :
       /\ out[i].data.userCount = 0
       /\ \E d \in live \ RegistryIds : d \in out[i].to /\ d \notin erred

(* -------------------------------- C26 ---------------------------------- *)
\* The typing and stop-typing events among those the page emitted.
TypingEmissions ==
  SelectSeq(emitted, LAMBDA e : e.event \in {"typing", "stop-typing"})

\* C26: over any sequence of input events, submissions and timer firings,
\* the typing and stop-typing events the page emits alternate, starting with
\* typing: the first, third, ... is a typing, the second, fourth, ... a
\* stop-typing.
TypingAlternates ==
  \A i \in 1..Len(TypingEmissions) :
    TypingEmissions[i].event = IF i % 2 = 1 THEN "typing" ELSE "stop-typing"
====
